---------------------------- MODULE Spec2Model ----------------------------
(***************************************************************************)
(* Moon lander (src/moon_lander.py): terrain generator, vehicle model,     *)
(* collision / landing classifier and the session loop of main().          *)
(*                                                                         *)
(* Numbers.  The program computes in floating point; the model computes on *)
(* fixed-point grids on which every constant of the program is exact:      *)
(*   lengths, speeds, accelerations   1/SCALE px        (SCALE = 50)       *)
(*   headings                         1/ADEG degree     (ADEG = 100)       *)
(*   fuel                             1/FUEL_UNIT unit  (FUEL_UNIT = 1000) *)
(*   time (dt)                        milliseconds, as clock.tick returns  *)
(* Terrain points and the pad rectangle are integers of pixels, as in the  *)
(* program.  sin and cos are Bhaskara's rational approximation, scaled by  *)
(* TRIG; products of two lengths are rounded back to the grid.             *)
(***************************************************************************)
EXTENDS Integers, Sequences, FiniteSets

VARIABLES
    pc,           \* position in the loop body: "update" | "restart" (main), or the call state of a function specification
    state,        \* main: state
    score,        \* main: score
    best,         \* main: best
    seed,         \* main: seed
    terrain_pts,  \* main: terrain_pts
    pad_rect,     \* main: pad_rect
    lander,       \* main: lander (the fields of the Lander object)
    keys,         \* main: keys, the snapshot pygame.key.get_pressed() returned
    dt,           \* main: dt, in milliseconds
    result,       \* main: result of check_collision_and_landing
    thrusting,    \* main: thrusting
    ticks,        \* number of loop iterations begun in the current attempt
    restarts      \* number of new_world calls made by the restart block

vars == <<pc, state, score, best, seed, terrain_pts, pad_rect, lander, keys, dt,
          result, thrusting, ticks, restarts>>

---------------------------------------------------------------------------
\* Grids
SCALE == 50
ADEG == 100
FUEL_UNIT == 1000
TRIG == 1000

\* Config (src/moon_lander.py:9-26)
WIDTH == 900
HEIGHT == 650
GRAVITY == 6
MAIN_THRUST == 11
SIDE_THRUST == 4
ROT_SPEED == 120
FUEL_START == 100000
FUEL_MAIN_BURN == 20
FUEL_RCS_BURN == 6
MAX_LAND_ANGLE == 800
MAX_VX == 90
MAX_VY == 125
PAD_WIDTH == 120
PAD_HEIGHT == 8

\* Literals of generate_terrain, after Python's int() and floating point
STEP == 30
ROUGHNESS == 35
Y_START_LO == 292
Y_START_HI == 454
Y_BAND_LO == 227
Y_BAND_HI == 552
PAD_X_LO == 135
PAD_X_HI == 720
PAD_MARGIN == 30
PAD_Y_DEFAULT == 390

---------------------------------------------------------------------------
\* Arithmetic helpers
Abs(x) == IF x < 0 THEN -x ELSE x

Max(a, b) == IF a >= b THEN a ELSE b

Min(a, b) == IF a <= b THEN a ELSE b

\* a / b rounded to the nearest integer (b > 0): a float quotient put back on the grid
RoundDiv(a, b) == (2 * a + b) \div (2 * b)

\* Python's int(): truncation toward zero of x / unit
IntTrunc(x, unit) == IF x >= 0 THEN x \div unit ELSE -((-x) \div unit)

clamp_unbounded(x, lo, hi) == x

clamp(x, lo, hi) == Max(lo, Min(hi, x))

\* sin of a heading h (1/ADEG degree) in [0, 180 degrees], times TRIG
SinHalfTurn(h) ==
    LET p == (h * (180 * ADEG - h)) \div 100
    IN  (400 * p) \div ((4050000 - p) \div 10)

\* math.sin(math.radians(a)) * TRIG for any heading a
Sin(a) ==
    LET m == a % (360 * ADEG)
    IN  IF m <= 180 * ADEG THEN SinHalfTurn(m) ELSE -SinHalfTurn(m - 180 * ADEG)

\* math.cos(math.radians(a)) * TRIG
Cos(a) == Sin(a + 90 * ADEG)

\* rot_point(px, py, cx, cy, angle_deg), all lengths on the 1/SCALE grid
rot_point(px, py, cx, cy, angle) ==
    LET s == Sin(angle)
        c == Cos(angle)
        qx == px - cx
        qy == py - cy
    IN  <<RoundDiv(qx * c - qy * s, TRIG) + cx, RoundDiv(qx * s + qy * c, TRIG) + cy>>

---------------------------------------------------------------------------
\* random.Random(seed): a seeded deterministic generator.  The library's
\* generator is stood for by a 16-bit linear congruential generator; what the
\* program relies on is kept: the draws are a function of the seed alone.
RNG_MOD == 65536
RNG_MUL == 25173
RNG_INC == 13849

rng_seed(s) == ((s % RNG_MOD) * 251 + 11952) % RNG_MOD

rng_next(r) == (r * RNG_MUL + RNG_INC) % RNG_MOD

\* rng.randint(lo, hi) read off generator state r (after it was advanced)
randint(r, lo, hi) == lo + ((r \div 64) % (hi - lo + 1))

\* The while loop of generate_terrain (lines 77-81): the points so far, the
\* next x and y, and the generator state.
RECURSIVE terrain_loop(_, _, _, _)
terrain_loop(pts, x, y, r) ==
    IF x <= WIDTH
    THEN LET r1 == rng_next(r)
             y1 == clamp(y + randint(r1, -ROUGHNESS, ROUGHNESS), Y_BAND_LO, Y_BAND_HI)
         IN  terrain_loop(Append(pts, <<x, y>>), x + STEP, y1, r1)
    ELSE [pts |-> pts, rng |-> r]

in_flat_band(px, pad_x) ==
    /\ pad_x - PAD_WIDTH \div 2 - PAD_MARGIN <= px
    /\ px <= pad_x + PAD_WIDTH \div 2 + PAD_MARGIN

\* The flattening loop (lines 85-92): pad_y is None (<<>>) until the first
\* point of the band, whose y every later point of the band takes.
RECURSIVE flatten_loop(_, _, _, _, _)
flatten_loop(pts, i, pad_x, pad_y, flat_pts) ==
    IF i > Len(pts)
    THEN [flat_pts |-> flat_pts, pad_y |-> pad_y]
    ELSE LET px == pts[i][1]
             py == pts[i][2]
         IN  IF in_flat_band(px, pad_x)
             THEN LET py1 == IF pad_y = <<>> THEN <<py>> ELSE pad_y
                  IN  flatten_loop(pts, i + 1, pad_x, py1, Append(flat_pts, <<px, py1[1]>>))
             ELSE flatten_loop(pts, i + 1, pad_x, pad_y, Append(flat_pts, <<px, py>>))

\* pygame.Rect(left, top, width, height)
Rect(left, top, width, height) ==
    [left |-> left, top |-> top, width |-> width, height |-> height]

RectRight(rc) == rc.left + rc.width

RectCenterX(rc) == rc.left + rc.width \div 2

make_pad_rect_top_at_surface(pad_x, pad_y) ==
    Rect(pad_x - PAD_WIDTH \div 2, pad_y, PAD_WIDTH, PAD_HEIGHT)

\* line 95
make_pad_rect(pad_x, pad_y) ==
    Rect(pad_x - PAD_WIDTH \div 2, pad_y - PAD_HEIGHT \div 2, PAD_WIDTH, PAD_HEIGHT)

\* The points before flattening, and the generator state after them (lines 70-81)
raw_terrain(s) ==
    LET r0 == rng_next(rng_seed(s))
    IN  terrain_loop(<<>>, 0, randint(r0, Y_START_LO, Y_START_HI), r0)

\* pad_x (line 83)
choose_pad_x(s) == randint(rng_next(raw_terrain(s).rng), PAD_X_LO, PAD_X_HI)

\* generate_terrain(seed): the flattened points and the pad rectangle
generate_terrain(s) ==
    LET raw == raw_terrain(s)
        pad_x == choose_pad_x(s)
        fl == flatten_loop(raw.pts, 1, pad_x, <<>>, <<>>)
        pad_y == IF fl.pad_y = <<>> THEN PAD_Y_DEFAULT ELSE fl.pad_y[1]
    IN  [terrain |-> fl.flat_pts, pad |-> make_pad_rect(pad_x, pad_y)]


---------------------------------------------------------------------------
\* Lander

\* Lander.__init__(x, y) (lines 109-115); x, y on the 1/SCALE grid
Lander(x, y) ==
    [x |-> x, y |-> y, vx |-> 0, vy |-> 0, angle |-> 0, fuel |-> FUEL_START,
     alive |-> TRUE, landed |-> FALSE]

\* self.h, self.w (lines 118-119), in px
LANDER_H == 28
LANDER_W == 18
FOOT_OUT == 8

\* self.local_points (lines 122-130), on the 1/SCALE grid
local_points ==
    << <<0, -(LANDER_H \div 2) * SCALE>>,
       <<(LANDER_W \div 2) * SCALE, (LANDER_H \div 2) * SCALE>>,
       <<(LANDER_W \div 2 + FOOT_OUT) * SCALE, (LANDER_H \div 2) * SCALE>>,
       <<(LANDER_W \div 2) * SCALE, (LANDER_H \div 2) * SCALE>>,
       <<-(LANDER_W \div 2) * SCALE, (LANDER_H \div 2) * SCALE>>,
       <<(-(LANDER_W \div 2) - FOOT_OUT) * SCALE, (LANDER_H \div 2) * SCALE>>,
       <<-(LANDER_W \div 2) * SCALE, (LANDER_H \div 2) * SCALE>> >>

left_foot_local == <<(-(LANDER_W \div 2) - FOOT_OUT) * SCALE, (LANDER_H \div 2) * SCALE>>

right_foot_local == <<(LANDER_W \div 2 + FOOT_OUT) * SCALE, (LANDER_H \div 2) * SCALE>>

\* Lander.world_polygon (lines 135-139): the loop from local point i onward
RECURSIVE world_polygon_loop(_, _, _)
world_polygon_loop(l, i, pts) ==
    IF i > Len(local_points)
    THEN pts
    ELSE world_polygon_loop(l, i + 1,
            Append(pts, rot_point(l.x + local_points[i][1], l.y + local_points[i][2],
                                  l.x, l.y, l.angle)))

world_polygon(l) == world_polygon_loop(l, 1, <<>>)

\* Lander.foot_points (lines 141-153): the first rf is overwritten
foot_points(l) ==
    LET lf == rot_point(l.x + left_foot_local[1], l.y + left_foot_local[2], l.x, l.y, l.angle)
        rf == rot_point(l.x + right_foot_local[1], l.y + right_foot_local[2], l.x, l.y, l.angle)
    IN  <<lf, rf>>

\* A key snapshot, one flag per binding group of update and of the restart block:
\*   left = K_LEFT or K_a, right = K_RIGHT or K_d, up = K_UP or K_w or K_SPACE,
\*   sl = K_q or K_COMMA, sr = K_e or K_PERIOD, r = K_r, n = K_n
Keys(left, right, up, sl, sr, r, n) ==
    [left |-> left, right |-> right, up |-> up, sl |-> sl, sr |-> sr, r |-> r, n |-> n]

NoKeys == Keys(FALSE, FALSE, FALSE, FALSE, FALSE, FALSE, FALSE)

\* ROT_SPEED * dt, in 1/ADEG degree, dt in ms
rot_step(d) == (ROT_SPEED * d * ADEG) \div 1000

\* fuel - rate * dt floored at 0 (lines 164, 168, 176, 181, 184)
burn_unfloored(fuel, rate, d) == fuel - rate * d

burn(fuel, rate, d) == Max(0, fuel - rate * d)

\* One rotation key (lines 161-164 with sign -1, lines 165-168 with sign +1):
\* the heading and the fuel after it
rotate_free(held, sign, angle, fuel, d) ==
    IF held
    THEN [angle |-> angle + sign * rot_step(d), fuel |-> burn(fuel, FUEL_RCS_BURN, d)]
    ELSE [angle |-> angle, fuel |-> fuel]

rotate(held, sign, angle, fuel, d) ==
    IF held /\ fuel > 0
    THEN [angle |-> angle + sign * rot_step(d), fuel |-> burn(fuel, FUEL_RCS_BURN, d)]
    ELSE [angle |-> angle, fuel |-> fuel]

\* Lines 159-203 of Lander.update, for a live vehicle in flight
update_flying(l, d, k) ==
    LET r1 == rotate(k.left, -1, l.angle, l.fuel, d)
        r2 == rotate(k.right, 1, r1.angle, r1.fuel, d)
        main == k.up /\ r2.fuel > 0
        ax1 == IF main THEN RoundDiv(MAIN_THRUST * Sin(r2.angle), TRIG) ELSE 0
        ay1 == GRAVITY - (IF main THEN RoundDiv(MAIN_THRUST * Cos(r2.angle), TRIG) ELSE 0)
        f3 == IF main THEN burn(r2.fuel, FUEL_MAIN_BURN, d) ELSE r2.fuel
        sl == k.sl /\ f3 > 0
        ax2 == IF sl THEN ax1 - SIDE_THRUST ELSE ax1
        f4 == IF sl THEN burn(f3, FUEL_RCS_BURN, d) ELSE f3
        sr == k.sr /\ f4 > 0
        ax3 == IF sr THEN ax2 + SIDE_THRUST ELSE ax2
        f5 == IF sr THEN burn(f4, FUEL_RCS_BURN, d) ELSE f4
        vx == l.vx + ax3
        vy == l.vy + ay1
        x0 == l.x + vx
        y0 == l.y + vy
        x1 == IF x0 < -30 * SCALE THEN (WIDTH + 30) * SCALE ELSE x0
        x2 == IF x1 > (WIDTH + 30) * SCALE THEN -30 * SCALE ELSE x1
        top == y0 < 20 * SCALE
        y1 == IF top THEN 20 * SCALE ELSE y0
        vy1 == IF top THEN Max(vy, 0) ELSE vy
    IN  [lander |-> [x |-> x2, y |-> y1, vx |-> vx, vy |-> vy1, angle |-> r2.angle,
                     fuel |-> f5, alive |-> ~(y1 > (HEIGHT + 50) * SCALE),
                     landed |-> l.landed],
         thrusting |-> IF main THEN "True" ELSE "False"]

update_unguarded(l, d, k) == update_flying(l, d, k)

\* Lander.update(dt, keys) (lines 155-203): the vehicle after the call and the
\* value returned ("None" from the bare return of line 157)
update(l, d, k) ==
    IF ~l.alive \/ l.landed
    THEN [lander |-> l, thrusting |-> "None"]
    ELSE update_flying(l, d, k)

---------------------------------------------------------------------------
\* Collision and landing

\* terrain_segments(points) (lines 98-103), the points put on the 1/SCALE
\* grid: the loop from index i onward
RECURSIVE terrain_segments_loop(_, _, _)
terrain_segments_loop(points, i, segs) ==
    IF i > Len(points) - 1
    THEN segs
    ELSE terrain_segments_loop(points, i + 1,
            Append(segs, << <<points[i][1] * SCALE, points[i][2] * SCALE>>,
                            <<points[i + 1][1] * SCALE, points[i + 1][2] * SCALE>> >>))

terrain_segments(points) == terrain_segments_loop(points, 1, <<>>)

\* line_intersect(a, b, c, d)[0] (lines 51-64): the hit flag.  On the grid
\* abs(den) < 1e-8 is den = 0, and 0 <= t <= 1 is decided on the numerator
\* and denominator of t, which floating-point division keeps.
line_intersect(a, b, c, d) ==
    LET den == (a[1] - b[1]) * (c[2] - d[2]) - (a[2] - b[2]) * (c[1] - d[1])
        tn == (a[1] - c[1]) * (c[2] - d[2]) - (a[2] - c[2]) * (c[1] - d[1])
        un == (a[1] - c[1]) * (a[2] - b[2]) - (a[2] - c[2]) * (a[1] - b[1])
    IN  IF den = 0
        THEN FALSE
        ELSE IF den > 0
             THEN 0 <= tn /\ tn <= den /\ 0 <= un /\ un <= den
             ELSE den <= tn /\ tn <= 0 /\ den <= un /\ un <= 0

\* zip(poly, rest) from index i onward
RECURSIVE zip_loop(_, _, _, _)
zip_loop(poly, rest, i, edges) ==
    IF i > Len(poly) \/ i > Len(rest)
    THEN edges
    ELSE zip_loop(poly, rest, i + 1, Append(edges, <<poly[i], rest[i]>>))

\* list(zip(poly, poly[1:] + poly[:1])) (line 226)
poly_edges(poly) == zip_loop(poly, Tail(poly) \o SubSeq(poly, 1, 1), 1, <<>>)

\* The inner loop (lines 231-235): segment j onward against one edge
RECURSIVE hit_segs(_, _, _)
hit_segs(e, segs, j) ==
    IF j > Len(segs)
    THEN FALSE
    ELSE IF line_intersect(e[1], e[2], segs[j][1], segs[j][2])
         THEN TRUE
         ELSE hit_segs(e, segs, j + 1)

\* The outer loop (lines 230-237): edge i onward
RECURSIVE hit_edges(_, _, _)
hit_edges(edges, segs, i) ==
    IF i > Len(edges)
    THEN FALSE
    ELSE IF hit_segs(edges[i], segs, 1)
         THEN TRUE
         ELSE hit_edges(edges, segs, i + 1)

\* lines 225-237
hit_any(l, terrain) ==
    hit_edges(poly_edges(world_polygon(l)), terrain_segments(terrain), 1)

\* line 245
feet_in_x(l, pad) ==
    LET f == foot_points(l)
    IN  /\ pad.left * SCALE <= f[1][1] /\ f[1][1] <= RectRight(pad) * SCALE
        /\ pad.left * SCALE <= f[2][1] /\ f[2][1] <= RectRight(pad) * SCALE

\* line 246
feet_on_y(l, pad) ==
    LET f == foot_points(l)
        low == Max(f[1][2], f[2][2])
    IN  low <= (pad.top + 10) * SCALE /\ low >= (pad.top - 14) * SCALE

angle_ok_unwrapped(angle) ==
    Abs(angle) <= MAX_LAND_ANGLE \/ Abs(angle - 360 * ADEG) <= MAX_LAND_ANGLE

\* line 248
angle_ok(angle) ==
    LET m == (angle + 360 * ADEG) % (360 * ADEG)
    IN  Abs(m - 0) <= MAX_LAND_ANGLE \/ Abs(m - 360 * ADEG) <= MAX_LAND_ANGLE

\* lines 249-250
speed_ok(l) == Abs(l.vx) <= MAX_VX /\ Abs(l.vy) <= MAX_VY

\* check_collision_and_landing(lander, terrain_pts, pad_rect) (lines 223-255)
check_collision_and_landing(l, terrain, pad) ==
    IF ~hit_any(l, terrain)
    THEN "none"
    ELSE IF feet_in_x(l, pad) /\ feet_on_y(l, pad) /\ angle_ok(l.angle) /\ speed_ok(l)
         THEN "land"
         ELSE "crash"

---------------------------------------------------------------------------
\* Session loop of main()

\* seed=None
NoSeed == -1

\* new_world(seed) (lines 322-332).  The draws of the module-level random
\* generator are parameters: s for randint(0, 999999), off for
\* randint(-80, 80) (px), drift for uniform(-0.6, 0.6) (1/SCALE px per tick).
new_world_falsy_seed(seed_arg, s, off, drift) ==
    LET sd == IF seed_arg = NoSeed \/ seed_arg = 0 THEN s ELSE seed_arg
        g == generate_terrain(sd)
        l == Lander((RectCenterX(g.pad) + off) * SCALE, 120 * SCALE)
    IN  [seed |-> sd, terrain |-> g.terrain, pad |-> g.pad,
         lander |-> [l EXCEPT !.vx = drift]]

new_world(seed_arg, s, off, drift) ==
    LET sd == IF seed_arg = NoSeed THEN s ELSE seed_arg
        g == generate_terrain(sd)
        l == Lander((RectCenterX(g.pad) + off) * SCALE, 120 * SCALE)
    IN  [seed |-> sd, terrain |-> g.terrain, pad |-> g.pad,
         lander |-> [l EXCEPT !.vx = drift]]

\* line 359: int(lander.fuel) + max(0, int(20 - abs(lander.vel.y)*4))
landing_bonus(l) ==
    IntTrunc(l.fuel, FUEL_UNIT) + Max(0, IntTrunc(20 * SCALE - Abs(l.vy) * 4, SCALE))

crash_score_unfloored(sc) == sc - 50

\* line 366
crash_score(sc) == Max(0, sc - 50)

landing_best_stale(bs, sc) == bs

\* line 361
landing_best(bs, sc) == Max(bs, sc)

\* The block under `if state == "PLAY"` (lines 352-366)
play_block(sc, bs, l, terrain, pad, d, k) ==
    LET u == update(l, d, k)
        res == check_collision_and_landing(u.lander, terrain, pad)
    IN  IF res = "land"
        THEN [state |-> "LANDED", lander |-> [u.lander EXCEPT !.landed = TRUE],
              score |-> sc + 100 + landing_bonus(u.lander),
              best |-> landing_best(bs, sc + 100 + landing_bonus(u.lander)),
              result |-> res, thrusting |-> u.thrusting]
        ELSE IF res = "crash" \/ ~u.lander.alive
             THEN [state |-> "CRASHED", lander |-> [u.lander EXCEPT !.alive = FALSE],
                   score |-> crash_score(sc), best |-> bs,
                   result |-> res, thrusting |-> u.thrusting]
             ELSE [state |-> "PLAY", lander |-> u.lander, score |-> sc, best |-> bs,
                   result |-> res, thrusting |-> u.thrusting]

Terminal == {"LANDED", "CRASHED"}

restart_without_key(st, k) == st \in Terminal

\* lines 369, 370, 374: the restart block runs a new_world call
restart_wanted(st, k) == st \in Terminal /\ (k.r \/ k.n)

\* Bounds of the exploration
MaxSeed == 1
MaxTicks == 50
MaxRestarts == 1
HoldTicks == 8

\* Inputs
Seeds == 0..MaxSeed
SpawnOffsets == {0}
Drifts == {0}
FrameTimes == {16}
FlightKeys ==
    { Keys(FALSE, FALSE, FALSE, FALSE, FALSE, FALSE, FALSE),
      Keys(FALSE, FALSE, TRUE, FALSE, FALSE, FALSE, FALSE),
      Keys(FALSE, FALSE, TRUE, FALSE, FALSE, TRUE, FALSE) }
RestartKeys ==
    { Keys(FALSE, FALSE, FALSE, FALSE, FALSE, TRUE, FALSE),
      Keys(FALSE, FALSE, FALSE, FALSE, FALSE, FALSE, TRUE),
      Keys(FALSE, FALSE, FALSE, FALSE, FALSE, TRUE, TRUE) }
PlayKeys == FlightKeys \cup RestartKeys

\* What the player may hold at this tick: in flight a key stays held for
\* HoldTicks ticks; the restart keys alone are pressed once the attempt is
\* over, and no more than MaxRestarts restarts are asked for
may_hold(k) ==
    /\ (k.r \/ k.n) => restarts < MaxRestarts
    /\ IF state = "PLAY"
       THEN k \in FlightKeys /\ (k = keys \/ ticks % HoldTicks = 0)
       ELSE k \in PlayKeys

Init ==
    \E s \in Seeds, off \in SpawnOffsets, drift \in Drifts :
        LET w == new_world(NoSeed, s, off, drift)
        IN  /\ pc = "update"
            /\ state = "PLAY"
            /\ score = 0
            /\ best = 0
            /\ seed = w.seed
            /\ terrain_pts = w.terrain
            /\ pad_rect = w.pad
            /\ lander = w.lander
            /\ keys = NoKeys
            /\ dt = 0
            /\ result = "none"
            /\ thrusting = "False"
            /\ ticks = 0
            /\ restarts = 0

\* Lines 342-366: the frame time and the keys are sampled; a session in PLAY
\* updates the vehicle, classifies the contact and scores
TickUpdate ==
    /\ pc = "update"
    /\ state = "PLAY" => ticks < MaxTicks
    /\ \E d \in FrameTimes, k \in {kk \in PlayKeys : may_hold(kk)} :
        /\ dt' = d
        /\ keys' = k
        /\ IF state = "PLAY"
           THEN \E b \in {play_block(score, best, lander, terrain_pts, pad_rect, d, k)} :
                    /\ state' = b.state
                    /\ lander' = b.lander
                    /\ score' = b.score
                    /\ best' = b.best
                    /\ result' = b.result
                    /\ thrusting' = b.thrusting
                    /\ ticks' = ticks + 1
           ELSE /\ thrusting' = "False"
                /\ UNCHANGED <<state, lander, score, best, result, ticks>>
    /\ pc' = "restart"
    /\ UNCHANGED <<seed, terrain_pts, pad_rect, restarts>>

\* Lines 370-377, the world after the two `if`s: R calls new_world(seed),
\* then N calls new_world(None)
restart_block(sd, terrain, pad, l, k, s, off, drift) ==
    LET w0 == [seed |-> sd, terrain |-> terrain, pad |-> pad, lander |-> l]
        w1 == IF k.r THEN new_world(sd, s, off, drift) ELSE w0
    IN  IF k.n THEN new_world(NoSeed, s, off, drift) ELSE w1

\* Lines 368-377 (and the rendering, which changes nothing of the session)
TickRestart ==
    /\ pc = "restart"
    /\ pc' = "update"
    /\ IF restart_wanted(state, keys)
       THEN \E s \in Seeds, off \in SpawnOffsets, drift \in Drifts :
            \E w2 \in {restart_block(seed, terrain_pts, pad_rect, lander, keys, s, off, drift)} :
                   /\ seed' = w2.seed
                   /\ terrain_pts' = w2.terrain
                   /\ pad_rect' = w2.pad
                   /\ lander' = w2.lander
                   /\ state' = "PLAY"
                   /\ ticks' = 0
                   /\ restarts' = restarts + 1
       ELSE UNCHANGED <<seed, terrain_pts, pad_rect, lander, state, ticks, restarts>>
    /\ UNCHANGED <<score, best, keys, dt, result, thrusting>>

Next == TickUpdate \/ TickRestart

Spec == Init /\ [][Next]_vars

---------------------------------------------------------------------------
\* Function specifications: the inputs are drawn by Init, one action makes
\* the call.  The variables a function does not touch keep these values.
NoRect == Rect(0, 0, 0, 0)

Parked ==
    /\ state = "PLAY"
    /\ score = 0
    /\ best = 0
    /\ keys = NoKeys
    /\ dt = 0
    /\ result = "none"
    /\ thrusting = "False"
    /\ ticks = 0
    /\ restarts = 0

\* generate_terrain(seed) over the seeds 0..MaxTerrainSeed
MaxTerrainSeed == 150

InitTerrain ==
    /\ pc = "terrain_idle"
    /\ seed \in 0..MaxTerrainSeed
    /\ terrain_pts = <<>>
    /\ pad_rect = NoRect
    /\ lander = Lander(0, 0)
    /\ Parked

GenerateTerrainCall ==
    /\ pc = "terrain_idle"
    /\ pc' = "terrain_done"
    /\ \E g \in {generate_terrain(seed)} :
          /\ terrain_pts' = g.terrain
          /\ pad_rect' = g.pad
    /\ UNCHANGED <<state, score, best, seed, lander, keys, dt, result, thrusting,
                   ticks, restarts>>

SpecTerrain == InitTerrain /\ [][GenerateTerrainCall]_vars

\* Lander.update(dt, keys) over sampled vehicles, every combination of the
\* five control groups and a range of frame times (ms)
ControlKeys ==
    {Keys(a, b, c, d, e, FALSE, FALSE) : a, b, c, d, e \in BOOLEAN}

UpdateTimes == {0, 16, 17, 250, 2500}

SampleFuels == {0, 2, 96, 5000, FUEL_START}

SampleAngles == {0, -192, 3000, 35808}

\* In mid-flight; leaving by the left edge; leaving by the right edge while
\* climbing past the ceiling; falling out of the bottom
SampleMotions ==
    { [x |-> 450 * SCALE, y |-> 120 * SCALE, vx |-> 0, vy |-> 0],
      [x |-> -1490, y |-> 120 * SCALE, vx |-> -30, vy |-> 10],
      [x |-> 46490, y |-> 1010, vx |-> 30, vy |-> -60],
      [x |-> 450 * SCALE, y |-> 34990, vx |-> 0, vy |-> 200] }

SampleFlags == {<<TRUE, FALSE>>, <<TRUE, TRUE>>, <<FALSE, FALSE>>}

SampleLanders ==
    { [x |-> m.x, y |-> m.y, vx |-> m.vx, vy |-> m.vy, angle |-> a, fuel |-> f,
       alive |-> fl[1], landed |-> fl[2]] :
         m \in SampleMotions, a \in SampleAngles, f \in SampleFuels, fl \in SampleFlags }

InitUpdate ==
    /\ pc = "update_idle"
    /\ lander \in SampleLanders
    /\ seed = 0
    /\ terrain_pts = <<>>
    /\ pad_rect = NoRect
    /\ Parked

UpdateCall ==
    /\ pc = "update_idle"
    /\ pc' = "update_called"
    /\ \E d \in UpdateTimes, k \in ControlKeys :
          /\ dt' = d
          /\ keys' = k
          /\ \E u \in {update(lander, d, k)} :
                /\ lander' = u.lander
                /\ thrusting' = u.thrusting
    /\ UNCHANGED <<state, score, best, seed, terrain_pts, pad_rect, result, ticks, restarts>>

SpecUpdate == InitUpdate /\ [][UpdateCall]_vars

\* check_collision_and_landing over vehicles placed around the pad of a
\* generated terrain: x offsets from the pad centre (px), heights of the feet
\* over the pad surface (1/SCALE px, negative is below it), headings, speeds
CollideSeeds == {0, 1}

SampleOffsets == {0, 43, 44, -70}

SampleHeights == {100, 0, -100, -350}

ContactAngles == {0, 192, 800, 801, -800, -801, 35200, 35199, 72500, -36500, 4500}

ContactVx == {0, MAX_VX, MAX_VX + 1, -MAX_VX, -MAX_VX - 1}

ContactVy == {0, MAX_VY, MAX_VY + 1, -MAX_VY - 1}

InitCollide ==
    /\ pc = "collide_idle"
    /\ seed \in CollideSeeds
    /\ \E g \in {generate_terrain(seed)} :
          /\ terrain_pts = g.terrain
          /\ pad_rect = g.pad
          /\ \E off \in SampleOffsets, h \in SampleHeights, a \in ContactAngles,
                vx \in ContactVx, vy \in ContactVy :
                lander = [x |-> (RectCenterX(g.pad) + off) * SCALE,
                          y |-> (g.pad.top + PAD_HEIGHT \div 2 - LANDER_H \div 2) * SCALE - h,
                          vx |-> vx, vy |-> vy, angle |-> a, fuel |-> FUEL_START,
                          alive |-> TRUE, landed |-> FALSE]
    /\ Parked

ClassifyCall ==
    /\ pc = "collide_idle"
    /\ pc' = "collide_called"
    /\ result' = check_collision_and_landing(lander, terrain_pts, pad_rect)
    /\ UNCHANGED <<state, score, best, seed, terrain_pts, pad_rect, lander, keys, dt,
                   thrusting, ticks, restarts>>

SpecCollide == InitCollide /\ [][ClassifyCall]_vars

---------------------------------------------------------------------------
\* Properties

\* floor(x / unit)
Floor(x, unit) == x \div unit

\* C1: the session leaves PLAY only for LANDED or CRASHED (in the update half
\* of a tick); a terminal state never turns into the other one, and turns
\* into PLAY only in the restart half of a tick whose key snapshot holds R or
\* N; the score changes only in a step from PLAY to a terminal state, so at
\* most once between two restarts; and no restart happens in PLAY.
C1_Lifecycle ==
    [][ /\ (state = "PLAY" /\ state' # "PLAY") => (state' \in Terminal /\ pc = "update")
        /\ (state \in Terminal /\ state' # state) =>
              (state' = "PLAY" /\ pc = "restart" /\ (keys.r \/ keys.n))
        /\ (score' # score) => (state = "PLAY" /\ state' \in Terminal)
        /\ (pc = "restart" /\ state = "PLAY") =>
              UNCHANGED <<state, lander, seed, terrain_pts, pad_rect>> ]_vars

\* A second attempt that ended in a crash on the terrain, after a first one
\* that landed
C1_Witness ==
    restarts = 1 /\ state = "CRASHED" /\ best > 0 /\ result = "crash"

\* The edges of the closed world polygon and the terrain segments, as sets
C2_Edges(l) ==
    LET poly == world_polygon(l)
    IN  {<<poly[i], poly[(i % Len(poly)) + 1]>> : i \in 1..Len(poly)}

C2_Segments(terrain) ==
    {<< <<terrain[j][1] * SCALE, terrain[j][2] * SCALE>>,
        <<terrain[j + 1][1] * SCALE, terrain[j + 1][2] * SCALE>> >> :
        j \in 1..(Len(terrain) - 1)}

C2_Intersects(l, terrain) ==
    \E e \in C2_Edges(l), g \in C2_Segments(terrain) : line_intersect(e[1], e[2], g[1], g[2])

\* Heading within MAX_LAND_ANGLE of upright, whole turns aside
C2_Upright(angle) ==
    \E n \in -3..3 : Abs(angle - n * 360 * ADEG) <= MAX_LAND_ANGLE

C2_SafeTouchdown(l, pad) ==
    LET f == foot_points(l)
        low == IF f[1][2] >= f[2][2] THEN f[1][2] ELSE f[2][2]
    IN  /\ \A i \in 1..2 : pad.left * SCALE <= f[i][1] /\ f[i][1] <= (pad.left + pad.width) * SCALE
        /\ (pad.top - 14) * SCALE <= low /\ low <= (pad.top + 10) * SCALE
        /\ C2_Upright(l.angle)
        /\ Abs(l.vx) <= MAX_VX /\ Abs(l.vy) <= MAX_VY

\* C2: check_collision_and_landing returns "none" exactly when no edge of the
\* closed polygon intersects a terrain segment; with an intersection it
\* returns "land" exactly when the feet are within the pad in x, the lower
\* foot is within [pad.top-14, pad.top+10], the heading is within
\* MAX_LAND_ANGLE of upright modulo whole turns and the speeds are within
\* MAX_VX and MAX_VY, and "crash" otherwise.
C2_Classification ==
    pc = "collide_called" =>
        /\ (result = "none") <=> ~C2_Intersects(lander, terrain_pts)
        /\ C2_Intersects(lander, terrain_pts) =>
              /\ (result = "land") <=> C2_SafeTouchdown(lander, pad_rect)
              /\ (result = "crash") <=> ~C2_SafeTouchdown(lander, pad_rect)

\* A landing at the limits: heading -8 degrees, speeds MAX_VX and MAX_VY
C2_Witness ==
    /\ pc = "collide_called"
    /\ result = "land"
    /\ lander.angle = -MAX_LAND_ANGLE
    /\ lander.vx = MAX_VX
    /\ lander.vy = MAX_VY

\* C3: the step into LANDED adds 100 + floor(fuel) + max(0, floor(20 - 4|vy|))
\* (fuel and vy as update left them), at least 100, to the score and makes
\* best the larger of best and the new score; the step into CRASHED makes the
\* score max(0, score - 50) and keeps best; every other step keeps both.
C3_Scoring ==
    [][ /\ (state = "PLAY" /\ state' = "LANDED") =>
              LET u == update(lander, dt', keys').lander
                  gain == 100 + Floor(u.fuel, FUEL_UNIT)
                              + Max(0, Floor(20 * SCALE - 4 * Abs(u.vy), SCALE))
              IN  /\ score' = score + gain
                  /\ gain >= 100
                  /\ best' = Max(best, score')
        /\ (state = "PLAY" /\ state' = "CRASHED") =>
              (score' = Max(0, score - 50) /\ best' = best)
        /\ ~(state = "PLAY" /\ state' \in Terminal) =>
              (score' = score /\ best' = best) ]_vars

\* Just landed, with fuel left that is not a whole number of units
C3_Witness ==
    /\ state = "LANDED"
    /\ pc = "restart"
    /\ score > 100
    /\ lander.fuel % FUEL_UNIT # 0

\* Frame times (ms): none, a frame at 60 per second, a stalled frame
BurnTimes == {0, 16, 2500}

\* C4: in every state of a session 0 <= fuel <= FUEL_START, and a call of
\* update from it, with any frame time and any combination of the control
\* keys, leaves a fuel that is neither above the fuel before nor below 0.
C4_FuelBounds ==
    /\ 0 <= lander.fuel
    /\ lander.fuel <= FUEL_START
    /\ \A d \in BurnTimes, k \in ControlKeys :
          \E f \in {update(lander, d, k).lander.fuel} : 0 <= f /\ f <= lander.fuel

\* In flight in a later attempt, with fuel burnt, where some call empties the tank
C4_Witness ==
    /\ state = "PLAY"
    /\ restarts >= 1
    /\ 0 < lander.fuel /\ lander.fuel < FUEL_START
    /\ \E d \in BurnTimes, k \in ControlKeys : update(lander, d, k).lander.fuel = 0

\* C5: update on a vehicle that is landed or not alive changes none of its
\* fields, whatever the frame time and the keys; and while the session is
\* LANDED or CRASHED the vehicle changes in no step, except in the restart
\* half of a tick whose key snapshot holds R or N.
C5_TerminalFrozen ==
    /\ [](((~lander.alive) \/ lander.landed) =>
             \A d \in UpdateTimes, k \in ControlKeys : update(lander, d, k).lander = lander)
    /\ [][(state \in Terminal /\ (pc = "update" \/ ~(keys.r \/ keys.n))) =>
             lander' = lander]_vars

\* A whole tick has passed in LANDED with neither R nor N held
C5_Witness ==
    /\ state = "LANDED"
    /\ lander.landed
    /\ pc = "update"
    /\ ~keys.r /\ ~keys.n

\* C6: the terrain and the pad of the session are those generate_terrain
\* returns for the session's seed, and a restart with R held and N not held
\* keeps the seed, the terrain and the pad, for every seed, 0 included.
C6_SameSeedRestart ==
    /\ [](\E g \in {generate_terrain(seed)} :
             terrain_pts = g.terrain /\ pad_rect = g.pad)
    /\ [][(pc = "restart" /\ state \in Terminal /\ keys.r /\ ~keys.n) =>
             (state' = "PLAY" /\ seed' = seed /\ terrain_pts' = terrain_pts
              /\ pad_rect' = pad_rect)]_vars

\* Right after a restart of seed 0 with R alone
C6_Witness ==
    /\ pc = "update"
    /\ state = "PLAY"
    /\ restarts = 1
    /\ ticks = 0
    /\ keys.r /\ ~keys.n
    /\ seed = 0

\* C7 as stated: every terrain point has HEIGHT*0.35 <= y <= HEIGHT*0.85
C7_FloatBand ==
    pc = "terrain_done" =>
        \A i \in 1..Len(terrain_pts) :
            HEIGHT * 35 <= terrain_pts[i][2] * 100 /\ terrain_pts[i][2] * 100 <= HEIGHT * 85

\* C7 (amended): every terrain point, flattened or not, has
\* int(HEIGHT*0.35) <= y <= int(HEIGHT*0.85), that is 227 <= y <= 552.
C7_IntBand ==
    pc = "terrain_done" =>
        \A i \in 1..Len(terrain_pts) :
            Y_BAND_LO <= terrain_pts[i][2] /\ terrain_pts[i][2] <= Y_BAND_HI

\* A terrain with a point on the lower limit, below HEIGHT*0.35, and a point
\* that the flattening rewrote
C7_Witness ==
    /\ pc = "terrain_done"
    /\ \E i \in 1..Len(terrain_pts) : terrain_pts[i][2] = Y_BAND_LO
    /\ \E i \in 1..Len(terrain_pts) : terrain_pts[i] # raw_terrain(seed).pts[i]

\* The indices of the terrain points in the flattening band of the pad
C8_Band ==
    {i \in 1..Len(terrain_pts) :
        /\ RectCenterX(pad_rect) - PAD_WIDTH \div 2 - PAD_MARGIN <= terrain_pts[i][1]
        /\ terrain_pts[i][1] <= RectCenterX(pad_rect) + PAD_WIDTH \div 2 + PAD_MARGIN}

\* C8 as stated: pad.top is the y of every terrain point in the band
C8_TopOnSurface ==
    pc = "terrain_done" =>
        \A i \in C8_Band : terrain_pts[i][2] = pad_rect.top

\* C8 (amended): the band is not empty and every terrain point in it has
\* y = pad.top + PAD_HEIGHT // 2: the pad is centred vertically on the
\* flattened surface, its top edge PAD_HEIGHT // 2 above it.
C8_PadCentredOnSurface ==
    pc = "terrain_done" =>
        /\ C8_Band # {}
        /\ \A i \in C8_Band : terrain_pts[i][2] = pad_rect.top + PAD_HEIGHT \div 2

\* A terrain where the flattening rewrote a point of the band
C8_Witness ==
    /\ pc = "terrain_done"
    /\ \E i \in C8_Band : terrain_pts[i] # raw_terrain(seed).pts[i]

\* The heading change the two rotation keys make, left first, then right on
\* the fuel left burnt
C9_Turn(l, d, k) ==
    LET goes_left == k.left /\ l.fuel > 0
        fuel1 == IF goes_left THEN Max(0, l.fuel - FUEL_RCS_BURN * d) ELSE l.fuel
        goes_right == k.right /\ fuel1 > 0
    IN  (IF goes_right THEN rot_step(d) ELSE 0) - (IF goes_left THEN rot_step(d) ELSE 0)

\* C9: a call of update on a live vehicle in flight with no fuel keeps the
\* heading whatever keys are held; a call that changes the heading burns
\* fuel; and the heading changes by ROT_SPEED*dt per rotation key, each
\* gated on the fuel it finds, left before right.
C9_RotationNeedsFuel ==
    [][ (pc' = "update_called" /\ lander.alive /\ ~lander.landed) =>
           /\ lander.fuel = 0 => lander'.angle = lander.angle
           /\ lander'.angle # lander.angle => lander'.fuel < lander.fuel
           /\ lander'.angle = lander.angle + C9_Turn(lander, dt', keys') ]_vars

\* After a call with the left key alone and a 2.5 s frame the vehicle is
\* alive with an empty tank and a sampled heading: no sampled heading is
\* rot_step(2500) from another, so the heading did not turn and the tank
\* was empty before the call.
C9_Witness ==
    /\ pc = "update_called"
    /\ lander.alive /\ ~lander.landed
    /\ lander.fuel = 0
    /\ keys.left /\ ~keys.right
    /\ dt = 2500
    /\ lander.angle \in SampleAngles

\* C10: 0 <= score <= best in every state, and best never decreases.
C10_ScoreBest ==
    /\ [](0 <= score /\ score <= best)
    /\ [][best' >= best]_vars

\* Crashed after a landing: the score is below best and above 0
C10_Witness ==
    state = "CRASHED" /\ 0 < score /\ score < best

=============================================================================
